---- MODULE Spec2Model ----
(***************************************************************************)
(* A model of WebSocketView (django_aws_api_gateway_websockets/views.py):  *)
(* the view that validates and routes the HTTP requests an AWS API Gateway *)
(* websocket integration sends for connect, disconnect and message events. *)
(*                                                                         *)
(* Strings whose contents the code inspects (User-Agent, Host, Origin,     *)
(* the gateway id, the user-agent prefix) are sequences of characters, so  *)
(* that Python's `in` (substring) and string equality are computed.  The   *)
(* raw request body is a sequence of JSON tokens that json_loads parses.   *)
(***************************************************************************)
EXTENDS Integers, Sequences, FiniteSets, TLC

VARIABLES
    aws_api_gateway_id, \* class attribute: None or the expected gateway id
    ALLOWED_HOSTS,      \* settings.ALLOWED_HOSTS: a list of host names
    request,            \* the request being handled: headers, method, body, user
    slug,               \* self.kwargs['slug']
    body,               \* self.body
    pc,                 \* where the handling of the request stands
    handler,            \* the handler dispatch selected
    response,           \* what the view returned (or raised)
    trace,              \* the checks and handlers run for this request, in order
    log,                \* the records this request wrote to the logger
    disconnects,        \* per connection id, the disconnects that have succeeded
    instances,          \* the view instances of the requests handled at one time
    class_body          \* WebSocketView.body, the dict of the class

vars == <<aws_api_gateway_id, ALLOWED_HOSTS, request, slug, body, pc, handler,
          response, trace, log, disconnects, instances, class_body>>

(***************************************************************************)
(* Bounds of the model.                                                    *)
(***************************************************************************)
\* the longest run of characters put in front of a User-Agent value
MaxPad == 1
\* the successful disconnects counted per connection id; later ones leave the
\* count where it is
MaxDisconnects == 2
\* the calls of dispatch by dispatch that the interpreter's stack has room for
RecursionLimit == 2
\* the requests handled at one time
NumViews == 2

(***************************************************************************)
(* Class attributes of WebSocketView.                                      *)
(***************************************************************************)
None == <<>>

route_selection_key == "action"

required_headers ==
    <<"Host", "X-Real-Ip", "X-Forwarded-For", "X-Forwarded-Proto", "Connection",
      "Content-Length", "X-Forwarded-Port", "X-Amzn-Trace-Id", "Connectionid",
      "User-Agent", "X-Amzn-Apigateway-Api-Id">>

required_connection_headers ==
    <<"Cookie", "Origin", "Sec-Websocket-Extensions", "Sec-Websocket-Key",
      "Sec-Websocket-Version">>

expected_useragent_prefix ==
    <<"A","m","a","z","o","n","A","P","I","G","a","t","e","w","a","y","_">>

\* django.views.generic.View.http_method_names, which dispatch reads
http_method_names ==
    {"get", "post", "put", "patch", "delete", "head", "options", "trace"}

(***************************************************************************)
(* Python operations the code uses.                                        *)
(***************************************************************************)
Range(s) == {s[i] : i \in 1..Len(s)}

\* `s in t` for two strings: s occurs in t as a substring
StrIn(s, t) ==
    \E i \in 0..(Len(t) - Len(s)) : SubSeq(t, i + 1, i + Len(s)) = s

\* `x in l` for a list l
ListIn(x, l) == \E i \in 1..Len(l) : l[i] = x

\* str.lower() on the request methods of the model
MethodLower(m) ==
    CASE m = "POST" -> "post"
      [] m = "GET" -> "get"
      [] m = "PROPFIND" -> "propfind"
      [] OTHER -> m

\* truthiness of a str-or-None or of a list
Truthy(x) == x # None

(***************************************************************************)
(* json.loads on the tokens of a request body: a JSON object of            *)
(* "key": value members, the value a string or a number.  The result is    *)
(* [ok, value]: ok is FALSE where json.loads raises JSONDecodeError.       *)
(***************************************************************************)
Punct(c) == [t |-> "punct", v |-> c]
Str(s) == [t |-> "str", v |-> s]
\* a number token carries its digits
Num(n) == [t |-> "num", v |-> n]

RECURSIVE ParseMembers(_, _)
ParseMembers(toks, acc) ==
    IF Len(toks) < 3 THEN [ok |-> FALSE, value |-> <<>>]
    ELSE IF ~(toks[1].t = "str" /\ toks[2] = Punct(":")
              /\ toks[3].t \in {"str", "num"})
    THEN [ok |-> FALSE, value |-> <<>>]
    ELSE LET next == (toks[1].v :> toks[3]) @@ acc  \* a later duplicate key wins
         IN  IF Len(toks) = 3 THEN [ok |-> TRUE, value |-> next]
             ELSE IF toks[4] = Punct(",")
             THEN ParseMembers(SubSeq(toks, 5, Len(toks)), next)
             ELSE [ok |-> FALSE, value |-> <<>>]

json_loads(raw) ==
    IF Len(raw) < 2 \/ raw[1] # Punct("{") \/ raw[Len(raw)] # Punct("}")
    THEN [ok |-> FALSE, value |-> <<>>]
    ELSE IF Len(raw) = 2 THEN [ok |-> TRUE, value |-> <<>>]
    ELSE ParseMembers(SubSeq(raw, 2, Len(raw) - 1), <<>>)

(***************************************************************************)
(* The requests of the model.                                              *)
(***************************************************************************)
AllHeaderNames == Range(required_headers) \cup Range(required_connection_headers)

\* the header sets a request may carry: all sixteen, or all but one
HeaderSets == {AllHeaderNames} \cup {AllHeaderNames \ {h} : h \in AllHeaderNames}

GatewayA == <<"G","1">>
GatewayB == <<"G","2">>

Pad(n) == [i \in 1..n |-> "x"]

\* User-Agent values: the prefix followed by a gateway id, alone or after
\* some other characters, and a value that lacks the prefix's last character
UserAgents ==
    {Pad(n) \o expected_useragent_prefix \o g :
        n \in 0..MaxPad, g \in {GatewayA, GatewayB}}
    \cup {SubSeq(expected_useragent_prefix, 1, Len(expected_useragent_prefix) - 1)
            \o GatewayA}

HostA == <<"a",".","c","o","m">>
HostB == <<"b",".","c","o","m">>
Hosts == {HostA, HostB}
Scheme == <<"h","t","t","p","s",":","/","/">>
Origins == {Scheme \o h : h \in Hosts}

ConnectionIds == {<<"c","1">>}

Methods == {"POST", "PROPFIND"}

Slugs == {"connect", "disconnect", "message"}

Object(members) == <<Punct("{")>> \o members \o <<Punct("}")>>

RawBodies ==
    { <<>>,
      Object(<<>>),
      Object(<<Str("data"), Punct(":"), Str("x")>>),
      Object(<<Str("action"), Punct(":"), Str("ping"), Punct(","),
               Str("data"), Punct(":"), Str("x")>>),
      Object(<<Str("action"), Punct(":"), Str("connect")>>),
      Object(<<Str("action"), Punct(":"), Str("missing_headers")>>),
      Object(<<Str("action"), Punct(":"), Str("dispatch")>>),
      Object(<<Str("action"), Punct(":"), Num("1")>>),
      <<Punct("{")>> }

\* the gateway names itself in X-Amzn-Apigateway-Api-Id as it does at the end
\* of its User-Agent
Headers(names, ua, host, origin, cid) ==
    [h \in names |->
        CASE h = "User-Agent" -> ua
          [] h = "X-Amzn-Apigateway-Api-Id" -> SubSeq(ua, Len(ua) - 1, Len(ua))
          [] h = "Host" -> host
          [] h = "Origin" -> origin
          [] h = "Connectionid" -> cid
          [] OTHER -> <<"v">>]

Requests ==
    {[headers |-> Headers(names, ua, host, origin, cid), method |-> m, body |-> raw] :
        names \in HeaderSets, ua \in UserAgents, host \in Hosts, origin \in Origins,
        cid \in ConnectionIds, m \in Methods, raw \in RawBodies}

NoRequest == [headers |-> <<>>, method |-> "", body |-> <<>>]

\* request.user: set by an authentication middleware, absent without one
RequestUsers == {"absent", "AnonymousUser", "User"}

(***************************************************************************)
(* The predicates of WebSocketView.                                        *)
(***************************************************************************)
\* any() where the code has all()
_expected_headers_any(req) ==
    \E i \in 1..Len(required_headers) : required_headers[i] \in DOMAIN req.headers

_expected_headers(req) ==
    \A i \in 1..Len(required_headers) : required_headers[i] \in DOMAIN req.headers

_expected_connection_headers(req) ==
    \A i \in 1..Len(required_connection_headers) :
        required_connection_headers[i] \in DOMAIN req.headers

\* the outcomes of `a is b` for two str objects: objects of different value
\* are never the same object, objects of equal value may or may not be
IsOutcomes(a, b) == IF a = b THEN BOOLEAN ELSE {FALSE}

\* the values a Python expression of the view gives: None or a bool
PyNone == [t |-> "NoneType", v |-> FALSE]
PyBool(b) == [t |-> "bool", v |-> b]
\* bool(x)
bool(x) == x.t = "bool" /\ x.v

\* return self.aws_api_gateway_id and
\*        request.headers['X-Amzn-Apigateway-Api-Id'] is not self.aws_api_gateway_id
\* same: the outcome of the `is`
_expected_apigateway_id(req, same) ==
    IF ~Truthy(aws_api_gateway_id) THEN PyNone ELSE PyBool(~same)

expected_useragent == expected_useragent_prefix \o aws_api_gateway_id

\* startswith where the code has `in`
_expected_useragent_startswith(req, same) ==
    IF Truthy(aws_api_gateway_id)
    THEN ~same
    ELSE /\ Len(req.headers["User-Agent"]) >= Len(expected_useragent_prefix)
         /\ SubSeq(req.headers["User-Agent"], 1, Len(expected_useragent_prefix))
                = expected_useragent_prefix

\* same: the outcome of `request.headers['User-Agent'] is f'{prefix}{id}'`
_expected_useragent(req, same) ==
    IF Truthy(aws_api_gateway_id)
    THEN ~same
    ELSE StrIn(expected_useragent_prefix, req.headers["User-Agent"])

\* an empty ALLOWED_HOSTS allows no host
_check_allowed_hosts_strict(req) == ListIn(req.headers["Host"], ALLOWED_HOSTS)

_check_allowed_hosts(req) ==
    ~(Truthy(ALLOWED_HOSTS) /\ ~ListIn(req.headers["Host"], ALLOWED_HOSTS))

\* == where the code has `in`
_check_host_is_in_origin_equal(req) == req.headers["Host"] = req.headers["Origin"]

_check_host_is_in_origin(req) ==
    StrIn(req.headers["Host"], req.headers["Origin"])

(***************************************************************************)
(* Responses, log records and trace entries.                               *)
(***************************************************************************)
NoResponse == [kind |-> "None", status |-> 0, content |-> ""]
JsonResponse(content) == [kind |-> "JsonResponse", status |-> 200, content |-> content]
HttpResponseBadRequest(msg) ==
    [kind |-> "HttpResponseBadRequest", status |-> 400, content |-> msg]
HttpResponseNotAllowed ==
    [kind |-> "HttpResponseNotAllowed", status |-> 405, content |-> ""]
\* the view did not return: it raised exc
Raised(exc) == [kind |-> "Raised", status |-> 0, content |-> exc]

\* extra={'status_code': ..., 'request': request}; logger.debug gives no extra
LogRecord(level, status_code, req) ==
    [level |-> level, status_code |-> status_code, request |-> req]

Check(name, ok) == [ev |-> name, ok |-> ok]
Call(name) == [ev |-> name, ok |-> TRUE]

\* _return_bad_request: a warning with status_code 400, then the response
\* the response without the warning
_return_bad_request_silent(req, tr, lg, msg) ==
    [response |-> HttpResponseBadRequest(msg), trace |-> tr, log |-> lg]

_return_bad_request(req, tr, lg, msg) ==
    [response |-> HttpResponseBadRequest(msg),
     trace |-> tr,
     log |-> lg \o <<LogRecord("warning", 400, req)>>]

(***************************************************************************)
(* dispatch: the selection of the handler.                                 *)
(***************************************************************************)
\* the names getattr(self, name, self.default) finds on the view: the
\* attributes and methods that views.py gives WebSocketView
ViewAttributes ==
    {"route_selection_key", "model", "body", "aws_api_gateway_id", "required_headers",
     "required_connection_headers", "expected_useragent_prefix", "setup",
     "_return_bad_request", "route_selection_key_missing", "missing_headers",
     "invalid_useragent", "_expected_headers", "_expected_apigateway_id",
     "_expected_useragent", "_check_allowed_hosts", "_check_host_is_in_origin",
     "_expected_connection_headers", "_add_user_to_request", "dispatch", "connect",
     "disconnect", "default"}

getattr_handler(name) == IF name \in ViewAttributes THEN name ELSE "default"

\* the method is not looked at
method_allowed_any(req) == TRUE

method_allowed(req) == MethodLower(req.method) \in http_method_names

route_key_present(bdy) == route_selection_key \in DOMAIN bdy

\* the result of the check is dropped
useragent_gate_open(h, ok) == h

\* `if not self._expected_useragent(...): handler = self.invalid_useragent`
useragent_gate(h, ok) == IF ~ok THEN "invalid_useragent" ELSE h

Selected(h, tr) == [handler |-> h, trace |-> tr, raised |-> ""]

\* the user-agent check guards the connect slug as well
dispatch_checks_connect(req, slg, bdy, same) ==
    LET hdr == _expected_headers(req)
        t1 == <<Check("_expected_headers", hdr)>>
    IN
    IF ~hdr THEN Selected("missing_headers", t1)
    ELSE
    LET meth == method_allowed(req)
        t2 == t1 \o <<Check("http_method_names", meth)>>
        ua == _expected_useragent(req, same)
        t3 == t2 \o <<Check("_expected_useragent", ua)>>
    IN
    IF ~meth THEN Selected("http_method_not_allowed", t2)
    ELSE IF slg = "connect" THEN Selected(useragent_gate("connect", ua), t3)
    ELSE IF slg = "disconnect" THEN Selected(useragent_gate("disconnect", ua), t3)
    ELSE IF route_key_present(bdy)
    THEN IF bdy[route_selection_key].t # "str"
         THEN [handler |-> "", trace |-> t2, raised |-> "TypeError"]
         ELSE Selected(useragent_gate(getattr_handler(bdy[route_selection_key].v), ua), t3)
    ELSE Selected("route_selection_key_missing", t2)

\* same: the outcome of the `is` of _expected_useragent, where it is evaluated
dispatch(req, slg, bdy, same) ==
    LET hdr == _expected_headers(req)
        t1 == <<Check("_expected_headers", hdr)>>
    IN
    IF ~hdr THEN Selected("missing_headers", t1)
    ELSE
    LET meth == method_allowed(req)
        t2 == t1 \o <<Check("http_method_names", meth)>>
        ua == _expected_useragent(req, same)
        t3 == t2 \o <<Check("_expected_useragent", ua)>>
    IN
    IF ~meth THEN Selected("http_method_not_allowed", t2)
    ELSE IF slg = "connect" THEN Selected("connect", t2)
    ELSE IF slg = "disconnect" THEN Selected(useragent_gate("disconnect", ua), t3)
    ELSE IF route_key_present(bdy)
    THEN IF bdy[route_selection_key].t # "str"
         \* getattr(): attribute name must be string
         THEN [handler |-> "", trace |-> t2, raised |-> "TypeError"]
         ELSE Selected(useragent_gate(getattr_handler(bdy[route_selection_key].v), ua), t3)
    ELSE Selected("route_selection_key_missing", t2)

(***************************************************************************)
(* The handlers.  Each gives the response, the trace and the log after it. *)
(***************************************************************************)
\* the host checks run before the connection headers are looked at
connect_hosts_first(req, tr, lg, user) ==
    LET allowed == _check_allowed_hosts(req)
        t1 == tr \o <<Call("connect"), Check("_check_allowed_hosts", allowed)>>
        l1 == IF allowed THEN lg ELSE lg \o <<LogRecord("warning", 400, req)>>
    IN
    IF ~allowed THEN _return_bad_request(req, t1, l1, "Host not in AllowedHosts")
    ELSE
    LET conn == _expected_connection_headers(req)
        t2 == t1 \o <<Check("_expected_connection_headers", conn)>>
    IN
    IF ~conn THEN _return_bad_request(req, t2, l1, "Missing headers")
    ELSE
    LET origin == _check_host_is_in_origin(req)
        t3 == t2 \o <<Check("_check_host_is_in_origin", origin)>>
        l3 == IF origin THEN l1 ELSE l1 \o <<LogRecord("warning", 400, req)>>
    IN
    IF ~origin THEN _return_bad_request(req, t3, l3, "Host not in Origin")
    ELSE IF user = "absent"
    THEN [response |-> Raised("AttributeError"), trace |-> t3, log |-> l3]
    ELSE [response |-> JsonResponse("{}"), trace |-> t3,
          log |-> l3 \o <<LogRecord("debug", 0, NoRequest)>>]

\* user: what reading request.user finds
connect(req, tr, lg, user) ==
    LET conn == _expected_connection_headers(req)
        t1 == tr \o <<Call("connect"), Check("_expected_connection_headers", conn)>>
    IN
    IF ~conn THEN _return_bad_request(req, t1, lg, "Missing headers")
    ELSE
    LET allowed == _check_allowed_hosts(req)
        t2 == t1 \o <<Check("_check_allowed_hosts", allowed)>>
        \* _check_allowed_hosts logs a warning of its own when it fails
        l2 == IF allowed THEN lg ELSE lg \o <<LogRecord("warning", 400, req)>>
    IN
    IF ~allowed THEN _return_bad_request(req, t2, l2, "Host not in AllowedHosts")
    ELSE
    LET origin == _check_host_is_in_origin(req)
        t3 == t2 \o <<Check("_check_host_is_in_origin", origin)>>
        \* so does _check_host_is_in_origin
        l3 == IF origin THEN l2 ELSE l2 \o <<LogRecord("warning", 400, req)>>
    IN
    IF ~origin THEN _return_bad_request(req, t3, l3, "Host not in Origin")
    \* logger.debug(f"... request.user.pk={request.user.pk}")
    ELSE IF user = "absent"
    THEN [response |-> Raised("AttributeError"), trace |-> t3, log |-> l3]
    ELSE [response |-> JsonResponse("{}"), trace |-> t3,
          log |-> l3 \o <<LogRecord("debug", 0, NoRequest)>>]

\* a second disconnect of a connection id is refused
disconnect_once(req, tr, lg, known) ==
    IF known[req.headers["Connectionid"]] > 0
    THEN _return_bad_request(req, tr \o <<Call("disconnect")>>, lg, "Already disconnected")
    ELSE [response |-> JsonResponse("{}"),
          trace |-> tr \o <<Call("disconnect")>>,
          log |-> lg \o <<LogRecord("debug", 0, NoRequest)>>]

\* known: the disconnects already done per connection id; the handler reads
\* nothing of them (the update of the session table is commented out)
disconnect(req, tr, lg, known) ==
    [response |-> JsonResponse("{}"),
     trace |-> tr \o <<Call("disconnect")>>,
     log |-> lg \o <<LogRecord("debug", 0, NoRequest)>>]

default(req, tr, lg) ==
    [response |-> Raised("NotImplementedError"),
     trace |-> tr \o <<Call("default")>>,
     log |-> lg]

route_selection_key_missing(req, tr, lg) ==
    _return_bad_request(req, tr \o <<Call("route_selection_key_missing")>>, lg,
                        "route_select_key missing from request body")

missing_headers(req, tr, lg) ==
    _return_bad_request(req, tr \o <<Call("missing_headers")>>, lg,
                        "Some of the required headers are missing")

invalid_useragent(req, tr, lg) ==
    _return_bad_request(req, tr \o <<Call("invalid_useragent")>>, lg,
                        "Unexpected Useragent")

\* django.views.generic.View.http_method_not_allowed: a warning with
\* status_code 405 and HttpResponseNotAllowed
http_method_not_allowed(req, tr, lg) ==
    [response |-> HttpResponseNotAllowed,
     trace |-> tr \o <<Call("http_method_not_allowed")>>,
     log |-> lg \o <<LogRecord("warning", 405, req)>>]

(***************************************************************************)
(* The state machine: one request at a time goes through setup, dispatch   *)
(* and the handler dispatch selected.  Once the response is handed back    *)
(* the view instance is dropped: the next request gets one of its own.     *)
(***************************************************************************)
GatewayIds == {None, GatewayA}
Views == 1..NumViews

\* what View.as_view makes for a request, `self = cls(**initkwargs)`: an
\* instance with no attribute of its own
NewInstance ==
    [request |-> NoRequest, slug |-> "", has_body |-> FALSE, body |-> <<>>,
     pc |-> "idle", handler |-> "", response |-> NoResponse, trace |-> <<>>,
     log |-> <<>>]
AllowedHostsSettings == {<<>>, <<HostA>>}

Init ==
    /\ aws_api_gateway_id \in GatewayIds
    /\ ALLOWED_HOSTS \in AllowedHostsSettings
    /\ request = NoRequest
    /\ slug = ""
    /\ body = <<>>
    /\ pc = "idle"
    /\ handler = ""
    /\ response = NoResponse
    /\ trace = <<>>
    /\ log = <<>>
    /\ disconnects = [c \in ConnectionIds |-> 0]
    /\ instances = [i \in Views |-> NewInstance]
    /\ class_body = <<>>

\* json.loads without the test for an empty body
setup_always_loads(raw) == json_loads(raw)

\* self.body = json.loads(request.body) if request.body else dict()
setup(raw) == IF raw # <<>> THEN json_loads(raw) ELSE [ok |-> TRUE, value |-> <<>>]

Setup ==
    /\ pc = "idle"
    /\ \E req \in Requests, slg \in Slugs :
        LET decoded == setup(req.body) IN
        /\ request' = req
        /\ slug' = slg
        /\ body' = decoded.value
        /\ pc' = IF decoded.ok THEN "dispatch" ELSE "done"
        /\ response' = IF decoded.ok THEN NoResponse ELSE Raised("JSONDecodeError")
    /\ handler' = ""
    /\ trace' = <<>>
    /\ log' = <<>>
    /\ UNCHANGED <<aws_api_gateway_id, ALLOWED_HOSTS, instances, class_body, disconnects>>

\* the outcomes of the `is` in _expected_useragent for this request
SameChoices ==
    IF _expected_headers(request) /\ Truthy(aws_api_gateway_id)
    THEN IsOutcomes(request.headers["User-Agent"], expected_useragent)
    ELSE {FALSE}

Dispatch ==
    /\ pc = "dispatch"
    /\ \E same \in SameChoices :
        LET d == dispatch(request, slug, body, same) IN
        /\ handler' = d.handler
        /\ trace' = trace \o d.trace
        /\ pc' = IF d.raised = "" THEN "handler" ELSE "done"
        /\ response' = IF d.raised = "" THEN NoResponse ELSE Raised(d.raised)
    /\ UNCHANGED <<aws_api_gateway_id, ALLOWED_HOSTS, instances, class_body, request, slug, body, log,
                   disconnects>>

Return(r) ==
    /\ response' = r.response
    /\ trace' = r.trace
    /\ log' = r.log
    /\ pc' = "done"
    /\ UNCHANGED <<aws_api_gateway_id, ALLOWED_HOSTS, instances, class_body, request, slug, body, handler>>

Connect ==
    /\ pc = "handler" /\ handler = "connect"
    /\ \E user \in RequestUsers : Return(connect(request, trace, log, user))
    /\ UNCHANGED disconnects

Disconnect ==
    /\ pc = "handler" /\ handler = "disconnect"
    /\ LET r == disconnect(request, trace, log, disconnects) IN
        /\ Return(r)
        /\ disconnects' =
            IF r.response.status = 200
            THEN [disconnects EXCEPT ![request.headers["Connectionid"]] =
                    IF @ < MaxDisconnects THEN @ + 1 ELSE @]
            ELSE disconnects

Default ==
    /\ pc = "handler" /\ handler = "default"
    /\ Return(default(request, trace, log))
    /\ UNCHANGED disconnects

RouteSelectionKeyMissing ==
    /\ pc = "handler" /\ handler = "route_selection_key_missing"
    /\ Return(route_selection_key_missing(request, trace, log))
    /\ UNCHANGED disconnects

MissingHeaders ==
    /\ pc = "handler" /\ handler = "missing_headers"
    /\ Return(missing_headers(request, trace, log))
    /\ UNCHANGED disconnects

InvalidUseragent ==
    /\ pc = "handler" /\ handler = "invalid_useragent"
    /\ Return(invalid_useragent(request, trace, log))
    /\ UNCHANGED disconnects

HttpMethodNotAllowed ==
    /\ pc = "handler" /\ handler = "http_method_not_allowed"
    /\ Return(http_method_not_allowed(request, trace, log))
    /\ UNCHANGED disconnects

\* the calls of dispatch made by dispatch so far for this request
Depth(tr) == Cardinality({i \in 1..Len(tr) : tr[i] = Call("dispatch")})

\* the handler getattr found is dispatch itself: `return handler(request, ...)`
\* enters dispatch again, with the same request and the same self.body
DispatchAgain ==
    /\ pc = "handler" /\ handler = "dispatch"
    /\ IF Depth(trace) < RecursionLimit
       THEN /\ trace' = trace \o <<Call("dispatch")>>
            /\ pc' = "dispatch"
            /\ response' = response
       ELSE /\ trace' = trace
            /\ pc' = "done"
            /\ response' = Raised("RecursionError")
    /\ UNCHANGED <<aws_api_gateway_id, ALLOWED_HOSTS, instances, class_body, request, slug, body, handler,
                   log, disconnects>>

\* the view function returns: the response leaves, the instance is dropped
Respond ==
    /\ pc = "done"
    /\ request' = NoRequest
    /\ slug' = ""
    /\ body' = <<>>
    /\ pc' = "idle"
    /\ handler' = ""
    /\ response' = NoResponse
    /\ trace' = <<>>
    /\ log' = <<>>
    /\ UNCHANGED <<aws_api_gateway_id, ALLOWED_HOSTS, instances, class_body, disconnects>>

Next ==
    \/ Setup
    \/ Dispatch
    \/ Connect
    \/ Disconnect
    \/ Default
    \/ RouteSelectionKeyMissing
    \/ MissingHeaders
    \/ InvalidUseragent
    \/ HttpMethodNotAllowed
    \/ DispatchAgain
    \/ Respond

Spec == Init /\ [][Next]_vars

(***************************************************************************)
(* Requests handled at one time.  View.as_view gives each request a view   *)
(* instance of its own and calls setup, then dispatch, on it; the steps of *)
(* the instances interleave.  The class and the settings are shared.       *)
(***************************************************************************)
ConcurrentRequests ==
    {[headers |-> Headers(AllHeaderNames, expected_useragent_prefix \o GatewayA, HostA,
                          Scheme \o HostA, <<"c","1">>),
      method |-> "POST", body |-> raw] :
        raw \in { <<>>,
                  Object(<<Str("action"), Punct(":"), Str("ping"), Punct(","),
                           Str("data"), Punct(":"), Str("x")>>),
                  Object(<<Str("action"), Punct(":"), Str("connect")>>) }}

\* the body is kept in the dict of the class, which all instances share
setattr_body_on_class(inst, cls, value) == [inst |-> inst, cls |-> value]

\* self.body = ...: an attribute of the instance
setattr_body(inst, cls, value) ==
    [inst |-> [inst EXCEPT !.has_body = TRUE, !.body = value], cls |-> cls]

\* self.body: the attribute of the instance, that of the class without one
getattr_body(inst, cls) == IF inst.has_body THEN inst.body ELSE cls

\* the outcomes of the `is` in _expected_useragent for req
IsChoices(req) ==
    IF _expected_headers(req) /\ Truthy(aws_api_gateway_id)
    THEN IsOutcomes(req.headers["User-Agent"], expected_useragent)
    ELSE {FALSE}

\* return handler(request, *args, **kwargs)
invoke(h, req, tr, lg, user) ==
    CASE h = "connect" -> connect(req, tr, lg, user)
      [] h = "disconnect" -> disconnect(req, tr, lg, disconnects)
      [] h = "route_selection_key_missing" -> route_selection_key_missing(req, tr, lg)
      [] h = "missing_headers" -> missing_headers(req, tr, lg)
      [] h = "invalid_useragent" -> invalid_useragent(req, tr, lg)
      [] h = "http_method_not_allowed" -> http_method_not_allowed(req, tr, lg)
      [] OTHER -> default(req, tr, lg)

ViewSetup(i) ==
    /\ instances[i].pc = "idle"
    /\ \E req \in ConcurrentRequests, slg \in Slugs :
        LET decoded == setup(req.body)
            set == setattr_body(instances[i], class_body, decoded.value)
        IN
        /\ instances' = [instances EXCEPT ![i] =
                [set.inst EXCEPT !.request = req, !.slug = slg, !.pc = "dispatch"]]
        /\ class_body' = set.cls
    /\ UNCHANGED <<aws_api_gateway_id, ALLOWED_HOSTS, request, slug, body, pc, handler,
                   response, trace, log, disconnects>>

ViewDispatch(i) ==
    /\ instances[i].pc = "dispatch"
    /\ \E same \in IsChoices(instances[i].request) :
        LET self == instances[i]
            d == dispatch(self.request, self.slug, getattr_body(self, class_body), same)
        IN
        instances' = [instances EXCEPT ![i] =
            [self EXCEPT !.handler = d.handler, !.trace = d.trace, !.pc = "handler"]]
    /\ UNCHANGED <<aws_api_gateway_id, ALLOWED_HOSTS, request, slug, body, pc, handler,
                   response, trace, log, disconnects, class_body>>

ViewHandler(i) ==
    /\ instances[i].pc = "handler"
    /\ \E user \in RequestUsers :
        LET self == instances[i]
            r == invoke(self.handler, self.request, self.trace, self.log, user)
        IN
        instances' = [instances EXCEPT ![i] =
            [self EXCEPT !.response = r.response, !.trace = r.trace, !.log = r.log,
                         !.pc = "done"]]
    /\ UNCHANGED <<aws_api_gateway_id, ALLOWED_HOSTS, request, slug, body, pc, handler,
                   response, trace, log, disconnects, class_body>>

\* the response leaves and the instance with it
ViewRespond(i) ==
    /\ instances[i].pc = "done"
    /\ instances' = [instances EXCEPT ![i] = NewInstance]
    /\ UNCHANGED <<aws_api_gateway_id, ALLOWED_HOSTS, request, slug, body, pc, handler,
                   response, trace, log, disconnects, class_body>>

NextConcurrent ==
    \E i \in Views :
        \/ ViewSetup(i)
        \/ ViewDispatch(i)
        \/ ViewHandler(i)
        \/ ViewRespond(i)

\* the requests of ConcurrentRequests come from HostA
InitConcurrent == Init /\ ALLOWED_HOSTS = <<HostA>>

SpecConcurrent == InitConcurrent /\ [][NextConcurrent]_vars

(***************************************************************************)
(* What the claims speak of, read off the request and the trace.           *)
(***************************************************************************)
HasRequiredHeaders == Range(required_headers) \subseteq DOMAIN request.headers
HasConnectionHeaders == Range(required_connection_headers) \subseteq DOMAIN request.headers
MethodSupported == MethodLower(request.method) \in http_method_names
HostAllowed == ALLOWED_HOSTS = <<>> \/ request.headers["Host"] \in Range(ALLOWED_HOSTS)
HostInOrigin == StrIn(request.headers["Host"], request.headers["Origin"])
ApplicationRoute == slug \notin {"connect", "disconnect"}

\* dispatch ran for the request at hand (setup did not raise)
DispatchRan == pc \in {"handler", "done"} /\ trace # <<>>
Finished == pc = "done" /\ trace # <<>>

Ran(name) == \E i \in 1..Len(trace) : trace[i] = Call(name)
Passed(name) == \E i \in 1..Len(trace) : trace[i] = Check(name, TRUE)
Failed(name) == \E i \in 1..Len(trace) : trace[i] = Check(name, FALSE)
Evaluated(name) == Passed(name) \/ Failed(name)
PassedBefore(name, i) == \E j \in 1..(i - 1) : trace[j] = Check(name, TRUE)

MissingHeadersResponse == HttpResponseBadRequest("Some of the required headers are missing")
InvalidUseragentResponse == HttpResponseBadRequest("Unexpected Useragent")
RouteKeyMissingResponse ==
    HttpResponseBadRequest("route_select_key missing from request body")
Success == JsonResponse("{}")

\* the handlers of the registry the base view owns
BusinessHandlers == {"connect", "disconnect", "default"}

(***************************************************************************)
(* C1: a request that lacks one of the eleven required headers fails       *)
(* _expected_headers and gets the BadRequest of missing_headers, whatever  *)
(* its method, slug and body; nothing but missing_headers runs for it.     *)
(***************************************************************************)
C1_MissingHeadersRejected ==
    (DispatchRan /\ ~HasRequiredHeaders) =>
        /\ trace[1] = Check("_expected_headers", FALSE)
        /\ handler = "missing_headers"
        /\ \A i \in 2..Len(trace) : trace[i] = Call("missing_headers")
        /\ pc = "done" => (response = MissingHeadersResponse /\ Len(trace) = 2)

C1_Witness ==
    /\ pc = "done"
    /\ "User-Agent" \notin DOMAIN request.headers
    /\ request.method = "PROPFIND"
    /\ slug = "disconnect"
    /\ request.body # <<>>
    /\ response = MissingHeadersResponse

(***************************************************************************)
(* C2: with aws_api_gateway_id set, a disconnect or application-route      *)
(* request whose User-Agent is not exactly prefix + gateway id is answered *)
(* by the BadRequest of invalid_useragent and its handler is not invoked.  *)
(***************************************************************************)
RouteKeyIsString ==
    /\ route_selection_key \in DOMAIN body
    /\ body[route_selection_key].t = "str"

ReachesUseragentCheck ==
    /\ Finished /\ HasRequiredHeaders /\ MethodSupported
    /\ slug = "disconnect" \/ (ApplicationRoute /\ RouteKeyIsString)

C2_StrictUseragentEnforced ==
    (/\ ReachesUseragentCheck
     /\ aws_api_gateway_id # None
     /\ request.headers["User-Agent"] # expected_useragent_prefix \o aws_api_gateway_id)
    => (/\ response = InvalidUseragentResponse
        /\ \A i \in 1..Len(trace) : trace[i].ev \notin BusinessHandlers)

(***************************************************************************)
(* C3: the disconnect handler and a resolved application handler are       *)
(* invoked only after the header, method and user-agent checks of the same *)
(* request have passed; connect returns Success only after its three       *)
(* checks have passed; no business handler runs after a failed check.      *)
(***************************************************************************)
C3_GatesBeforeHandlers ==
    /\ \A i \in 1..Len(trace) :
        (trace[i].ev \in BusinessHandlers /\ slug # "connect") =>
            /\ PassedBefore("_expected_headers", i)
            /\ PassedBefore("http_method_names", i)
            /\ PassedBefore("_expected_useragent", i)
    /\ \A i \in 1..Len(trace) :
        (trace[i].ev \in BusinessHandlers /\ slug = "connect") =>
            /\ PassedBefore("_expected_headers", i)
            /\ PassedBefore("http_method_names", i)
    /\ (pc = "done" /\ Ran("connect") /\ response = Success) =>
            /\ Passed("_expected_connection_headers")
            /\ Passed("_check_allowed_hosts")
            /\ Passed("_check_host_is_in_origin")
    /\ \A i \in 1..Len(trace) : \A j \in (i + 1)..Len(trace) :
        ~trace[i].ok => trace[j].ev \notin BusinessHandlers

C3_Witness ==
    /\ pc = "done"
    /\ slug = "message"
    /\ Ran("default")
    /\ Passed("_expected_useragent")
    /\ aws_api_gateway_id = None

(***************************************************************************)
(* C4: connect checks the connection headers, then the allowed hosts,      *)
(* then the host against the origin, and stops at the first failure.       *)
(***************************************************************************)
C4_ConnectChecksInOrder ==
    (pc = "done" /\ Ran("connect")) =>
        /\ ~HasConnectionHeaders =>
            /\ response = HttpResponseBadRequest("Missing headers")
            /\ ~Evaluated("_check_allowed_hosts")
            /\ ~Evaluated("_check_host_is_in_origin")
        /\ (HasConnectionHeaders /\ ~HostAllowed) =>
            /\ response = HttpResponseBadRequest("Host not in AllowedHosts")
            /\ ~Evaluated("_check_host_is_in_origin")
        /\ \A i, j \in 1..Len(trace) :
            (\/ /\ trace[i].ev = "_expected_connection_headers"
                /\ trace[j].ev \in {"_check_allowed_hosts", "_check_host_is_in_origin"}
             \/ /\ trace[i].ev = "_check_allowed_hosts"
                /\ trace[j].ev = "_check_host_is_in_origin")
            => (i < j /\ trace[i].ok)

C4_Witness ==
    /\ pc = "done"
    /\ slug = "connect"
    /\ "Cookie" \notin DOMAIN request.headers
    /\ ~HostAllowed
    /\ ~HostInOrigin
    /\ response = HttpResponseBadRequest("Missing headers")

(***************************************************************************)
(* C5: a connect request with all required headers, a supported method,    *)
(* all five connection headers, an allowed Host and Host within Origin     *)
(* gets Success with an empty JSON body, whether or not the request        *)
(* carries a user.                                                         *)
(***************************************************************************)
C5_ConnectSucceeds ==
    (/\ Finished /\ slug = "connect"
     /\ HasRequiredHeaders /\ MethodSupported /\ HasConnectionHeaders
     /\ HostAllowed /\ HostInOrigin)
    => response = Success

(***************************************************************************)
(* C6: an application-route request that passes the header, method and     *)
(* user-agent checks and whose route-key value has no handler in the       *)
(* registry is handed to default and ends in NotImplementedError; it never *)
(* gets a Success.                                                         *)
(***************************************************************************)
C6_UnregisteredRouteNotImplemented ==
    (/\ Finished /\ ApplicationRoute /\ HasRequiredHeaders /\ MethodSupported
     /\ RouteKeyIsString
     /\ body[route_selection_key].v \notin BusinessHandlers
     /\ ~Failed("_expected_useragent"))
    => (/\ Ran("default")
        /\ response = Raised("NotImplementedError"))

(***************************************************************************)
(* C7: an application-route request with all required headers and a        *)
(* supported method whose decoded body lacks the route key (an empty raw   *)
(* body decodes to the empty mapping) gets the BadRequest of               *)
(* route_selection_key_missing, whatever its User-Agent: the user-agent    *)
(* check is not evaluated for it.                                          *)
(***************************************************************************)
C7_RouteKeyMissingRejected ==
    /\ (pc # "idle" /\ request.body = <<>>) => (body = <<>> /\ response # Raised("JSONDecodeError"))
    /\ (/\ Finished /\ ApplicationRoute /\ HasRequiredHeaders /\ MethodSupported
        /\ route_selection_key \notin DOMAIN body)
       => (/\ response = RouteKeyMissingResponse
           /\ ~Evaluated("_expected_useragent")
           /\ \A i \in 1..Len(trace) : trace[i].ev \notin BusinessHandlers)

C7_Witness ==
    /\ pc = "done"
    /\ HasRequiredHeaders
    /\ slug = "message"
    /\ request.body = <<>>
    /\ aws_api_gateway_id = None
    /\ ~StrIn(expected_useragent_prefix, request.headers["User-Agent"])
    /\ response = RouteKeyMissingResponse

(***************************************************************************)
(* C8: a request with all required headers whose method is not a supported *)
(* verb gets http_method_not_allowed (405) whatever its slug, body and     *)
(* User-Agent; nothing else runs for it.  The method is not looked at when *)
(* a required header is missing.                                           *)
(***************************************************************************)
C8_MethodNotAllowed ==
    /\ (DispatchRan /\ HasRequiredHeaders /\ ~MethodSupported) =>
        /\ handler = "http_method_not_allowed"
        /\ SubSeq(trace, 1, 2) = <<Check("_expected_headers", TRUE),
                                   Check("http_method_names", FALSE)>>
        /\ \A i \in 3..Len(trace) : trace[i] = Call("http_method_not_allowed")
        /\ pc = "done" => (response = HttpResponseNotAllowed /\ Len(trace) = 3)
    /\ (DispatchRan /\ ~HasRequiredHeaders) => ~Evaluated("http_method_names")

C8_Witness ==
    /\ pc = "done"
    /\ HasRequiredHeaders
    /\ request.method = "PROPFIND"
    /\ slug = "disconnect"
    /\ response.status = 405
    /\ aws_api_gateway_id = None
    /\ ~StrIn(expected_useragent_prefix, request.headers["User-Agent"])

(***************************************************************************)
(* C9: a disconnect request that passes the header and method checks gets  *)
(* the BadRequest of invalid_useragent, and no disconnect, when the        *)
(* user-agent check fails; otherwise disconnect runs and returns an        *)
(* empty-body Success, also for a connection id that was disconnected      *)
(* before.                                                                 *)
(***************************************************************************)
C9_DisconnectIdempotent ==
    (Finished /\ slug = "disconnect" /\ HasRequiredHeaders /\ MethodSupported) =>
        /\ Evaluated("_expected_useragent")
        /\ Failed("_expected_useragent") =>
            (response = InvalidUseragentResponse /\ ~Ran("disconnect"))
        /\ Passed("_expected_useragent") =>
            (/\ Ran("disconnect")
             /\ response = Success
             /\ disconnects[request.headers["Connectionid"]] > 0)

\* a further disconnect of the same connection id has succeeded
C9_Witness ==
    /\ pc = "done"
    /\ slug = "disconnect"
    /\ HasRequiredHeaders
    /\ response = Success
    /\ disconnects[request.headers["Connectionid"]] = MaxDisconnects

(***************************************************************************)
(* C10: with aws_api_gateway_id unset, _expected_useragent is true exactly *)
(* when the User-Agent contains the prefix: a disconnect or application-   *)
(* route request without the prefix gets the BadRequest of                 *)
(* invalid_useragent, one with it goes on to its handler.                  *)
(***************************************************************************)
C10_PrefixContained ==
    (ReachesUseragentCheck /\ aws_api_gateway_id = None) =>
        LET contains == StrIn(expected_useragent_prefix, request.headers["User-Agent"])
        IN  /\ trace[3] = Check("_expected_useragent", contains)
            /\ ~contains =>
                (/\ response = InvalidUseragentResponse
                 /\ trace[Len(trace)] = Call("invalid_useragent")
                 /\ Len(trace) = 4)
            /\ contains =>
                (/\ handler # "invalid_useragent"
                 /\ trace[4] = Call(handler)
                 /\ slug = "disconnect" => handler = "disconnect")

C10_Witness ==
    /\ pc = "done"
    /\ HasRequiredHeaders
    /\ aws_api_gateway_id = None
    /\ slug = "disconnect"
    /\ request.headers["User-Agent"] = Pad(1) \o expected_useragent_prefix \o GatewayB
    /\ response = Success

(***************************************************************************)
(* C11: whatever the request and the configuration, what dispatch produces *)
(* is a Success with a JSON body or a BadRequest with a message: no other  *)
(* status, no raised error, no other value.                                *)
(***************************************************************************)
C11_OnlySuccessOrBadRequest ==
    Finished => response.kind \in {"JsonResponse", "HttpResponseBadRequest"}

(***************************************************************************)
(* C12: the user-agent check is evaluated for disconnect and for an        *)
(* application route with a route key, never for the connect slug: the     *)
(* response to a connect request is decided by everything but the value of *)
(* its User-Agent, and connect is guarded by its own checks.               *)
(***************************************************************************)
\* what a connect request may get, read off everything but its User-Agent value
ConnectResponses ==
    IF ~HasRequiredHeaders THEN {MissingHeadersResponse}
    ELSE IF ~MethodSupported THEN {HttpResponseNotAllowed}
    ELSE IF ~HasConnectionHeaders THEN {HttpResponseBadRequest("Missing headers")}
    ELSE IF ~HostAllowed THEN {HttpResponseBadRequest("Host not in AllowedHosts")}
    ELSE IF ~HostInOrigin THEN {HttpResponseBadRequest("Host not in Origin")}
    ELSE {Success, Raised("AttributeError")}

C13_AllowedHost ==
    Evaluated("_check_allowed_hosts") =>
        /\ ALLOWED_HOSTS = <<>> => Passed("_check_allowed_hosts")
        /\ ALLOWED_HOSTS # <<>> =>
            (Passed("_check_allowed_hosts")
                <=> \E i \in 1..Len(ALLOWED_HOSTS) : ALLOWED_HOSTS[i] = request.headers["Host"])

C13_Witness ==
    /\ pc = "done"
    /\ ALLOWED_HOSTS = <<>>
    /\ Passed("_check_allowed_hosts")
    /\ request.headers["Host"] = HostB

(***************************************************************************)
(* C14: _check_host_is_in_origin is true exactly when the Host is a        *)
(* substring of the Origin; a connect request with Host a.com and Origin   *)
(* https://b.com fails it and is rejected with a BadRequest.               *)
(***************************************************************************)
C14_HostWithinOrigin ==
    Evaluated("_check_host_is_in_origin") =>
        LET host == request.headers["Host"]
            origin == request.headers["Origin"]
            within == \E i \in 1..(Len(origin) + 1) : \E j \in 0..Len(origin) :
                        SubSeq(origin, i, j) = host
        IN  /\ Passed("_check_host_is_in_origin") <=> within
            /\ (pc = "done" /\ ~within) =>
                response = HttpResponseBadRequest("Host not in Origin")

C14_Witness ==
    /\ pc = "done"
    /\ slug = "connect"
    /\ Failed("_check_host_is_in_origin")
    /\ request.headers["Host"] = HostA
    /\ request.headers["Origin"] = Scheme \o HostB
    /\ response.status = 400

(***************************************************************************)
(* C17: for an application-route request that passes all gates, the        *)
(* handler invoked is an entry of the handler registry (connect,           *)
(* disconnect, default: the view registers no other); a route-key value    *)
(* that names any other member of the view resolves to default.            *)
(***************************************************************************)
C17_HandlerFromRegistry ==
    (/\ DispatchRan /\ ApplicationRoute /\ RouteKeyIsString
     /\ Passed("_expected_useragent"))
    => /\ handler \in BusinessHandlers
       /\ body[route_selection_key].v \in ViewAttributes \ BusinessHandlers
            => handler = "default"

(***************************************************************************)
(* C19: _expected_apigateway_id allows every request when                  *)
(* aws_api_gateway_id is unset; when it is set, it accepts a request if    *)
(* and only if the X-Amzn-Apigateway-Api-Id header equals it.              *)
(***************************************************************************)
C19_GatewayIdAccepted ==
    (pc = "dispatch" /\ HasRequiredHeaders) =>
        LET id == request.headers["X-Amzn-Apigateway-Api-Id"] IN
        \A same \in IsOutcomes(id, aws_api_gateway_id) :
            LET accepted == bool(_expected_apigateway_id(request, same)) IN
            /\ aws_api_gateway_id = None => accepted
            /\ aws_api_gateway_id # None => (accepted <=> id = aws_api_gateway_id)

(***************************************************************************)
(* C16, as the specification has it: every rejection, the not-implemented  *)
(* route included, leaves dispatch after a log record that carries a       *)
(* status code and the request.                                            *)
(***************************************************************************)
Logged(status_code) ==
    \E i \in 1..Len(log) : log[i] = LogRecord("warning", status_code, request)

Rejection ==
    \/ response.kind \in {"HttpResponseBadRequest", "HttpResponseNotAllowed"}
    \/ response = Raised("NotImplementedError")

C16_EveryRejectionLogged ==
    (Finished /\ Rejection) =>
        \E i \in 1..Len(log) : log[i].level = "warning" /\ log[i].request = request

(***************************************************************************)
(* C16, amended: every BadRequest (missing headers, missing connection     *)
(* headers, disallowed host, host outside origin, route key missing,       *)
(* invalid user-agent) and the method-not-allowed response leaves dispatch *)
(* after a warning record that carries its status code and the request,    *)
(* the last record of the request; the not-implemented route raises        *)
(* NotImplementedError and the view logs nothing for it.                   *)
(***************************************************************************)
C16_ResponsesLogged ==
    Finished =>
        /\ response.kind \in {"HttpResponseBadRequest", "HttpResponseNotAllowed"} =>
            /\ Logged(response.status)
            /\ log[Len(log)] = LogRecord("warning", response.status, request)
        /\ (Failed("_check_allowed_hosts") \/ Failed("_check_host_is_in_origin")) =>
            Len(log) = 2
        /\ Ran("default") => (response = Raised("NotImplementedError") /\ log = <<>>)

C16_Witness ==
    /\ pc = "done"
    /\ Ran("invalid_useragent")
    /\ response = HttpResponseBadRequest("Unexpected Useragent")
    /\ log = <<LogRecord("warning", 400, request)>>

(***************************************************************************)
(* C18: dispatch of one request selects one handler, invokes it once and   *)
(* ends; dispatch is never entered again for the same request.             *)
(***************************************************************************)
Handlers ==
    BusinessHandlers \cup {"route_selection_key_missing", "missing_headers",
                           "invalid_useragent", "http_method_not_allowed", "dispatch"}

Invocations == {i \in 1..Len(trace) : trace[i].ev \in Handlers}

C18_DispatchEnteredOnce ==
    /\ ~Ran("dispatch")
    /\ DispatchRan => Cardinality({i \in 1..Len(trace) :
                                    trace[i].ev = "_expected_headers"}) = 1
    /\ (Finished /\ response.content # "TypeError") => Cardinality(Invocations) = 1

(***************************************************************************)
(* C15: requests handled at one time do not touch each other: in every     *)
(* interleaving of the steps of their instances the body each dispatch     *)
(* reads is the one decoded from the request's own raw body, the handler   *)
(* and the response are those the request gets when handled alone, a step  *)
(* writes one instance only, and the class body and the settings are never *)
(* written.                                                                *)
(***************************************************************************)
\* what the request gets when it is handled alone: dispatch on the body
\* decoded from its raw body, then the handler
Alone(req, slg, same, user) ==
    LET d == dispatch(req, slg, setup(req.body).value, same) IN
    [handler |-> d.handler,
     response |-> invoke(d.handler, req, d.trace, <<>>, user).response]

AloneOutcomes(req, slg) ==
    {Alone(req, slg, same, user) : same \in IsChoices(req), user \in RequestUsers}

C15_OwnBody ==
    \A i \in Views :
        LET self == instances[i] IN
        /\ self.pc # "idle" =>
            getattr_body(self, class_body) = setup(self.request.body).value
        /\ self.pc \in {"handler", "done"} =>
            self.handler \in {o.handler : o \in AloneOutcomes(self.request, self.slug)}
        /\ self.pc = "done" =>
            \E o \in AloneOutcomes(self.request, self.slug) :
                o.handler = self.handler /\ o.response = self.response

C15_OneInstancePerStep ==
    /\ \E i \in Views : \A j \in Views \ {i} : instances'[j] = instances[j]
    /\ UNCHANGED <<class_body, aws_api_gateway_id, ALLOWED_HOSTS>>

C15_Independent == []C15_OwnBody /\ [][C15_OneInstancePerStep]_vars

\* two requests with different bodies under way: the first at its handler,
\* the second has its response
C15_Witness ==
    /\ instances[1].pc = "handler"
    /\ instances[2].pc = "done"
    /\ instances[1].body # instances[2].body
    /\ instances[1].handler = "default"
    /\ instances[2].response = Success

====
